---------------------------- MODULE Spec2Model ----------------------------
(***************************************************************************)
(* A model of the chatbot repository:                                      *)
(*   src/src/chatbot/core.py            ChatbotCore over one shared        *)
(*                                      sqlite3 connection and cursor      *)
(*   src/src/auth/middleware.py         authenticate / requires_auth       *)
(*   src/src/security/input_validator.py  validate_input / sanitize_sql    *)
(*                                                                         *)
(* Text is a sequence of one-character strings, so that interpolation      *)
(* into a query, escaping and substring tests are computed character by    *)
(* character.                                                              *)
(***************************************************************************)
EXTENDS Integers, Sequences, FiniteSets, TLC

VARIABLES
    users,          \* table users: sequence of rows, in rowid order
    chat_history,   \* table chat_history: sequence of rows, in rowid order
    cursor,         \* self.cursor: the result set of the last statement
    th,             \* per request-handler thread: position and locals
    calls,          \* how many requests the handler threads have taken
    writes,         \* how many statements have changed a stored row so far
    now,            \* the clock: CURRENT_TIMESTAMP, and the time jwt.decode reads
    issued,         \* the tokens authenticate has returned, with who logged in
    request,        \* flask.request of the call being served
    outcome,        \* the last middleware call and what it returned
    invoked,        \* how often the wrapped operation f ran in that call
    applied,        \* the last call of a function of input_validator.py or of
                    \* the reply generator: its arguments and what it returned
    chatbot_instance,   \* the module global of core.py
    constructed     \* how many ChatbotCore objects have been constructed

varsCore == <<users, chat_history, cursor, th, calls, writes>>
varsAuth == <<now, issued, request, outcome, invoked>>
varsBoot == <<chatbot_instance, constructed>>
vars == <<users, chat_history, cursor, th, calls, writes, now, issued, request,
          outcome, invoked, applied, chatbot_instance, constructed>>

---------------------------------------------------------------------------
(* Bounds of the model *)

NThreads == 2
MaxCalls == 3
MaxTurns == 3
MaxNow == 1
MaxTextLen == 3     \* length of the texts given to validate_input(.., "text")
MaxEmailLen == 6    \* length of the texts given to validate_input(.., "email")
MaxSqlLen == 3      \* length of the texts given to sanitize_sql
MaxWords == 2       \* words in the messages given to _generate_response

Threads == 1..NThreads

---------------------------------------------------------------------------
(* Text *)

None == "None"

sHello == <<"H", "e", "l", "l", "o">>
sThis == <<"t", "h", "i", "s">>
sBye == <<"b", "y", "e">>
sTag == <<"<", "b", ">">>
sPadded == <<" ", "o", "k">>

sAdmin == <<"a", "d", "m", "i", "n">>
sAdminComment == <<"a", "d", "m", "i", "n", "'", " ", "-", "-">>
sPw == <<"p", "w">>
sWrong == <<"w", "r", "o", "n", "g">>
sOrTrue == <<"'", " ", "O", "R", " ", "1", " ", "-", "-">>
sQuote == <<"'">>
sOk == <<"o", "k">>
\* "test'; DROP TABLE users; --"
sDropTable == <<"t", "e", "s", "t", "'", ";", " ", "D", "R", "O", "P", " ", "T", "A", "B", "L", "E", " ", "u", "s", "e", "r", "s", ";", " ", "-", "-">>
\* "test' DROP TABLE users "
sDropTableKept == <<"t", "e", "s", "t", "'", " ", "D", "R", "O", "P", " ", "T", "A", "B", "L", "E", " ", "u", "s", "e", "r", "s", " ">>
\* "<script>alert('x')</script>"
sScript == <<"<", "s", "c", "r", "i", "p", "t", ">", "a", "l", "e", "r", "t", "(", "'", "x", "'", ")", "<", "/", "s", "c", "r", "i", "p", "t", ">">>

\* the texts of at most n characters over an alphabet
Texts(alphabet, n) == UNION {[1..k -> alphabet] : k \in 0..n}

RECURSIVE Flatten(_)
Flatten(ss) == IF ss = <<>> THEN <<>> ELSE Head(ss) \o Flatten(Tail(ss))

\* str.lower() on the letters the model uses
LowerChar(c) ==
    CASE c = "H" -> "h"
      [] c = "O" -> "o"
      [] c = "R" -> "r"
      [] c = "A" -> "a"
      [] c = "N" -> "n"
      [] c = "D" -> "d"
      [] c = "E" -> "e"
      [] OTHER -> c

Lower(s) == [i \in 1..Len(s) |-> LowerChar(s[i])]

\* Python's `needle in hay` on strings
Contains(hay, needle) ==
    \E i \in 0..(Len(hay) - Len(needle)) :
        SubSeq(hay, i + 1, i + Len(needle)) = needle

IsSpace(c) == c = " "

RECURSIVE LStrip(_)
LStrip(s) == IF s # <<>> /\ IsSpace(Head(s)) THEN LStrip(Tail(s)) ELSE s

RECURSIVE RStrip(_)
RStrip(s) ==
    IF s # <<>> /\ IsSpace(s[Len(s)]) THEN RStrip(SubSeq(s, 1, Len(s) - 1)) ELSE s

\* str.strip()
Strip(s) == RStrip(LStrip(s))

---------------------------------------------------------------------------
(* src/src/security/input_validator.py *)

\* html.escape(s, quote=True), one character
EscapeChar(c) ==
    CASE c = "&" -> <<"&", "a", "m", "p", ";">>
      [] c = "<" -> <<"&", "l", "t", ";">>
      [] c = ">" -> <<"&", "g", "t", ";">>
      [] c = "\"" -> <<"&", "q", "u", "o", "t", ";">>
      [] c = "'" -> <<"&", "#", "x", "2", "7", ";">>
      [] OTHER -> <<c>>

\* html.escape(s, quote=False): the quotes are left as they are
html_escape_NoQuote(s) ==
    Flatten([i \in 1..Len(s) |->
                IF s[i] \in {"'", "\""} THEN <<s[i]>> ELSE EscapeChar(s[i])])

html_escape(s) == Flatten([i \in 1..Len(s) |-> EscapeChar(s[i])])

\* what a call returns: a value of some kind, or the exception it raised
Ret(kind, val) == [kind |-> kind, val |-> val]

\* re.match(r"[^@]+@[^@]+\.[^@]+", s): the pattern matches a prefix of s
EmailPatternMatches(s) ==
    \E i, j \in 1..Len(s) :
        /\ 1 < i /\ s[i] = "@"
        /\ \A k \in 1..(i - 1) : s[k] # "@"
        /\ i + 1 < j /\ s[j] = "."
        /\ \A k \in (i + 1)..(j - 1) : s[k] # "@"
        /\ j < Len(s) /\ s[j + 1] # "@"

\* str.isdigit()
isdigit(s) ==
    /\ s # <<>>
    /\ \A i \in 1..Len(s) :
           s[i] \in {"0", "1", "2", "3", "4", "5", "6", "7", "8", "9"}

\* validate_input(user_input, input_type)
validate_input(user_input, input_type) ==
    IF user_input = <<>> THEN Ret("str", <<>>)
    ELSE LET cleaned_input == Strip(user_input) IN
         IF input_type = "email" /\ ~EmailPatternMatches(cleaned_input)
         THEN Ret("ValueError", "Invalid email format")
         ELSE IF input_type = "number" /\ ~isdigit(cleaned_input)
         THEN Ret("ValueError", "Input must be numeric")
         ELSE Ret("str", html_escape(cleaned_input))

\* sanitize_sql(input_text): the pattern is one character class, which
\* holds the semicolon, the hyphen (twice) and the double quote; re.sub
\* deletes every character of the class
sanitize_sql(input_text) ==
    SelectSeq(input_text, LAMBDA c : c \notin {";", "-", "\""})

---------------------------------------------------------------------------
(* src/src/chatbot/core.py: the reply generator *)

kwHello == <<"h", "e", "l", "l", "o">>
kwHi == <<"h", "i">>
kwHelp == <<"h", "e", "l", "p">>
kwBye == <<"b", "y", "e">>
kwGoodbye == <<"g", "o", "o", "d", "b", "y", "e">>

RGreeting == "Hello! How can I assist you today?"
RHelp == "I can help you with various tasks. What do you need assistance with?"
RFarewell == "Goodbye! Have a great day!"
RFallback == "I'm still learning. Can you please rephrase your question?"

\* the reply generator testing for "help" before the greetings
_generate_response_HelpFirst(message) ==
    LET message_lower == Lower(message) IN
    IF Contains(message_lower, kwHelp)
    THEN RHelp
    ELSE IF Contains(message_lower, kwHello) \/ Contains(message_lower, kwHi)
    THEN RGreeting
    ELSE IF Contains(message_lower, kwBye) \/ Contains(message_lower, kwGoodbye)
    THEN RFarewell
    ELSE RFallback

_generate_response(message) ==
    LET message_lower == Lower(message) IN
    IF Contains(message_lower, kwHello) \/ Contains(message_lower, kwHi)
    THEN RGreeting
    ELSE IF Contains(message_lower, kwHelp)
    THEN RHelp
    ELSE IF Contains(message_lower, kwBye) \/ Contains(message_lower, kwGoodbye)
    THEN RFarewell
    ELSE RFallback

---------------------------------------------------------------------------
(* The SQL text that core.py hands to sqlite3, and what sqlite3 makes of    *)
(* it.  A statement is a sequence of symbols: the characters interpolated  *)
(* by an f-string, and the words of the fixed template.  Only the WHERE     *)
(* clause varies, so a statement is its table and its WHERE text.           *)
(* The fragment read here: string literals ('' is an escaped quote), --     *)
(* comments, numbers, column names, =, LIKE, AND, OR, a final semicolon.    *)
(* Anything else makes sqlite3 raise, as does an unknown identifier.        *)

Digits == <<"0", "1", "2", "3", "4", "5", "6", "7", "8", "9">>
IsDigit(c) == \E d \in 1..10 : Digits[d] = c
DigitVal(c) == (CHOOSE d \in 1..10 : Digits[d] = c) - 1

Letters == {"a", "b", "d", "e", "g", "h", "i", "k", "l", "m", "n", "o", "p",
            "r", "s", "t", "u", "w", "x", "y",
            "A", "D", "E", "H", "N", "O", "R"}
IsLetter(c) == c \in Letters

TextColumns == {"username", "password", "message"}
IntColumns == {"user_id"}

\* str(n) for n >= 0
RECURSIVE IntToStr(_)
IntToStr(n) ==
    IF n < 10 THEN <<Digits[n + 1]>>
    ELSE IntToStr(n \div 10) \o <<Digits[(n % 10) + 1]>>

RECURSIVE StrToInt(_)
StrToInt(s) ==
    IF s = <<>> THEN 0
    ELSE 10 * StrToInt(SubSeq(s, 1, Len(s) - 1)) + DigitVal(s[Len(s)])

\* the end of the string literal whose text starts at q[i]: the index of the
\* closing quote (0: the literal is not terminated) and the literal's text
RECURSIVE ScanString(_, _, _)
ScanString(q, i, acc) ==
    IF i > Len(q) THEN [end |-> 0, s |-> acc]
    ELSE IF q[i] = "'"
    THEN IF i < Len(q) /\ q[i + 1] = "'"
         THEN ScanString(q, i + 2, Append(acc, "'"))
         ELSE [end |-> i, s |-> acc]
    ELSE ScanString(q, i + 1, Append(acc, q[i]))

\* the last index of the run of letters and digits that starts at q[i]
RECURSIVE RunEnd(_, _)
RunEnd(q, i) ==
    IF i < Len(q) /\ (IsLetter(q[i + 1]) \/ IsDigit(q[i + 1]))
    THEN RunEnd(q, i + 1) ELSE i

Tok(k, v) == [k |-> k, v |-> v]
LexError == <<Tok("error", <<>>)>>

WordToken(w) ==
    IF Lower(w) = <<"o", "r">> THEN Tok("or", <<>>)
    ELSE IF Lower(w) = <<"a", "n", "d">> THEN Tok("and", <<>>)
    ELSE Tok("ident", w)

\* sqlite3's tokenizer from q[i] on
RECURSIVE Lex(_, _)
Lex(q, i) ==
    IF i > Len(q) THEN <<>>
    ELSE LET c == q[i] IN
    IF IsSpace(c) THEN Lex(q, i + 1)
    ELSE IF c = "-" /\ i < Len(q) /\ q[i + 1] = "-" THEN <<>>
    ELSE IF c = "'"
    THEN LET lit == ScanString(q, i + 1, <<>>) IN
         IF lit.end = 0 THEN LexError
         ELSE <<Tok("str", lit.s)>> \o Lex(q, lit.end + 1)
    ELSE IF c = "AND" THEN <<Tok("and", <<>>)>> \o Lex(q, i + 1)
    ELSE IF c = "LIKE" THEN <<Tok("like", <<>>)>> \o Lex(q, i + 1)
    ELSE IF c \in TextColumns \cup IntColumns
    THEN <<Tok("col", <<c>>)>> \o Lex(q, i + 1)
    ELSE IF c = "=" THEN <<Tok("eq", <<>>)>> \o Lex(q, i + 1)
    ELSE IF c = ";" THEN <<Tok("semi", <<>>)>> \o Lex(q, i + 1)
    ELSE IF IsDigit(c)
    THEN LET e == RunEnd(q, i)
             w == SubSeq(q, i, e) IN
         IF \A j \in 1..Len(w) : IsDigit(w[j])
         THEN <<Tok("num", w)>> \o Lex(q, e + 1)
         ELSE LexError
    ELSE IF IsLetter(c)
    THEN LET e == RunEnd(q, i) IN
         <<WordToken(SubSeq(q, i, e))>> \o Lex(q, e + 1)
    ELSE <<Tok("other", <<c>>)>> \o Lex(q, i + 1)

\* toks cut at every token of kind sep
RECURSIVE SplitAt(_, _)
SplitAt(toks, sep) ==
    IF \A j \in 1..Len(toks) : toks[j].k # sep THEN <<toks>>
    ELSE LET j == CHOOSE j \in 1..Len(toks) :
                      toks[j].k = sep /\ \A h \in 1..(j - 1) : toks[h].k # sep
         IN <<SubSeq(toks, 1, j - 1)>> \o SplitAt(SubSeq(toks, j + 1, Len(toks)), sep)

IsOperand(t) == t.k \in {"str", "num", "col"}

\* one comparison, or one operand read as a truth value
AtomOk(a) ==
    \/ Len(a) = 1 /\ IsOperand(a[1])
    \/ Len(a) = 3 /\ IsOperand(a[1]) /\ a[2].k \in {"eq", "like"} /\ IsOperand(a[3])

DropFinalSemi(toks) ==
    IF toks # <<>> /\ toks[Len(toks)].k = "semi"
    THEN SubSeq(toks, 1, Len(toks) - 1) ELSE toks

\* the WHERE clause as a disjunction of conjunctions of atoms (AND binds
\* tighter than OR), or <<>> when sqlite3 rejects the statement
ParseWhere(q) ==
    LET toks == DropFinalSemi(Lex(q, 1))
        ors == SplitAt(toks, "or")
        dnf == [i \in 1..Len(ors) |-> SplitAt(ors[i], "and")]
    IN IF \A i \in 1..Len(dnf) : \A j \in 1..Len(dnf[i]) : AtomOk(dnf[i][j])
       THEN dnf ELSE <<>>

\* an operand's value in a row: text, or an integer kept as its decimal text
OperandText(t, row) ==
    IF t.k = "col"
    THEN IF t.v[1] \in IntColumns THEN IntToStr(row[t.v[1]]) ELSE row[t.v[1]]
    ELSE t.v

IsInt(t) == t.k = "num" \/ (t.k = "col" /\ t.v[1] \in IntColumns)
IsNumeric(s) == s # <<>> /\ \A j \in 1..Len(s) : IsDigit(s[j])

\* x = y under sqlite3's affinity rules: a column lends its affinity to a
\* literal, two literals of different storage classes are never equal
SqlEq(x, y, row) ==
    LET xs == OperandText(x, row)
        ys == OperandText(y, row) IN
    IF IsInt(x) = IsInt(y) THEN
        IF IsInt(x) THEN StrToInt(xs) = StrToInt(ys) ELSE xs = ys
    ELSE IF x.k = "col" \/ y.k = "col" THEN
        LET colIsInt == IF x.k = "col" THEN IsInt(x) ELSE IsInt(y) IN
        IF colIsInt
        THEN IsNumeric(xs) /\ IsNumeric(ys) /\ StrToInt(xs) = StrToInt(ys)
        ELSE xs = ys
    ELSE FALSE

\* s LIKE pat: % matches any run, letters compare without case
RECURSIVE LikeMatch(_, _)
LikeMatch(pat, s) ==
    IF pat = <<>> THEN s = <<>>
    ELSE IF Head(pat) = "%"
    THEN \E k \in 0..Len(s) : LikeMatch(Tail(pat), SubSeq(s, k + 1, Len(s)))
    ELSE /\ s # <<>>
         /\ LowerChar(Head(s)) = LowerChar(Head(pat))
         /\ LikeMatch(Tail(pat), Tail(s))

\* the leading digits of a text, which is the number sqlite3 casts it to
RECURSIVE LeadingDigits(_)
LeadingDigits(s) ==
    IF s # <<>> /\ IsDigit(Head(s)) THEN <<Head(s)>> \o LeadingDigits(Tail(s))
    ELSE <<>>

SqlTruth(x, row) == StrToInt(LeadingDigits(LStrip(OperandText(x, row)))) # 0

AtomHolds(a, row) ==
    IF Len(a) = 1 THEN SqlTruth(a[1], row)
    ELSE IF a[2].k = "eq" THEN SqlEq(a[1], a[3], row)
    ELSE LikeMatch(OperandText(a[3], row), OperandText(a[1], row))

WhereHolds(dnf, row) ==
    \E i \in 1..Len(dnf) : \A j \in 1..Len(dnf[i]) : AtomHolds(dnf[i][j], row)

\* the rows of table a SELECT with WHERE clause q returns, in rowid order
SelectWhere(table, q) ==
    LET dnf == ParseWhere(q) IN
    SelectSeq(table, LAMBDA row : WhereHolds(dnf, row))

SqlRejects(q) == ParseWhere(q) = <<>>

---------------------------------------------------------------------------
(* src/src/chatbot/core.py: ChatbotCore.  All request handlers share one    *)
(* ChatbotCore (get_chatbot), hence one connection and one cursor.  Each    *)
(* cursor.execute, fetchone and fetchall is one atomic step; conn.commit    *)
(* changes nothing a statement on the same connection can see and is part   *)
(* of the step of the statement before it.  Any statement may raise         *)
(* sqlite3.Error (fail = TRUE): the store is locked or broken.              *)

UserIds == {1, 2}
Messages == {sHello, sBye, sTag}
Keywords == {<<"l">>, sOrTrue}
Usernames == {sAdmin, sAdminComment}
Passwords == {sPw, sWrong}
Limits == {1, 10}

NoRet == Ret("pending", 0)

\* a handler thread's locals.  faulted (a statement of this call raised
\* sqlite3.Error), opened (the id of the row this call inserted), seen (how
\* many writes had happened when the call began) and mark (the highest row
\* id in chat_history when the call's SELECT ran) are not in the code: they
\* record what happened, for the properties below
Idle == [pc |-> "idle", op |-> "none", user_id |-> 0, text |-> <<>>,
         password |-> <<>>, limit |-> 0, response |-> "", result |-> NoRet,
         faulted |-> FALSE, opened |-> 0, seen |-> 0, mark |-> 0, obj |-> 0]

\* rows a statement in flight may still insert into chat_history
PendingInserts == Cardinality({t \in Threads : th[t].pc = "pm_insert"})

Begin(op, pc0) == [Idle EXCEPT !.pc = pc0, !.op = op]

\* a handler thread that is free takes the next request
CanCall(t) == th[t].pc \in {"idle", "done"} /\ calls < MaxCalls

MaxId(rows) ==
    IF rows = <<>> THEN 0
    ELSE CHOOSE m \in {rows[i].id : i \in 1..Len(rows)} :
             \A i \in 1..Len(rows) : rows[i].id <= m

\* f"... WHERE username = '{username}' AND password = '{password}'"
AuthQuery(username, password) ==
    <<"username", " ", "=", " ", "'">> \o username
        \o <<"'", " ", "AND", " ", "password", " ", "=", " ", "'">> \o password
        \o <<"'">>

\* f"... WHERE user_id = {user_id} AND message LIKE '%{keyword}%'"
SearchQuery(user_id, keyword) ==
    <<"user_id", " ", "=", " ">> \o IntToStr(user_id)
        \o <<" ", "AND", " ", "message", " ", "LIKE", " ", "'", "%">> \o keyword
        \o <<"%", "'">>

\* the result row (message, response, timestamp) of a chat_history row; the
\* fourth component is not in the code: it records which row was read
HistoryTuple(row) == <<row.message, row.response, row.timestamp, row.id>>

\* the result row (id, password) of a users row
AuthTuple(row) == <<row.id, row.password>>

\* the result set of a SELECT over the rows it matched
HistoryTuples(rows) == [i \in 1..Len(rows) |-> HistoryTuple(rows[i])]
AuthTuples(rows) == [i \in 1..Len(rows) |-> AuthTuple(rows[i])]

\* INSERT INTO chat_history (user_id, message, response) VALUES (?, ?, "")
InsertTurn(user_id, message) ==
    Append(chat_history,
           [id |-> MaxId(chat_history) + 1, user_id |-> user_id,
            message |-> message, response |-> "", timestamp |-> now])

\* UPDATE chat_history SET response = ? WHERE user_id = ? AND
\*   id = (SELECT MAX(id) FROM chat_history WHERE user_id = ?)
UpdateLatest(user_id, response) ==
    LET mine == SelectSeq(chat_history, LAMBDA row : row.user_id = user_id)
        target == MaxId(mine) IN
    [i \in 1..Len(chat_history) |->
        IF chat_history[i].user_id = user_id /\ chat_history[i].id = target
        THEN [chat_history[i] EXCEPT !.response = response]
        ELSE chat_history[i]]

\* how many rows the UPDATE of _save_message rewrites: the user's latest
\* row, when the user has a row
RowsMatched(user_id) ==
    IF \E i \in 1..Len(chat_history) : chat_history[i].user_id = user_id
    THEN 1 ELSE 0

\* process_message, line 106: a handler starts and is about to save the
\* user's message
CallProcessMessage(t) ==
    \E user_id \in UserIds, message \in Messages :
        /\ CanCall(t)
        /\ Len(chat_history) + PendingInserts < MaxTurns
        /\ th' = [th EXCEPT ![t] =
                    [Begin("process_message", "pm_insert") EXCEPT
                        !.user_id = user_id, !.text = message]]
        /\ calls' = calls + 1
        /\ UNCHANGED <<users, chat_history, cursor, writes>>

\* _save_message(user_id, message, "user"), then _generate_response
SaveUserMessage(t) ==
    \E fail \in BOOLEAN :
        /\ th[t].pc = "pm_insert"
        /\ IF fail
           THEN /\ UNCHANGED <<chat_history, cursor, writes>>
                /\ th' = [th EXCEPT ![t].pc = "pm_update", ![t].faulted = TRUE,
                             ![t].response = _generate_response(th[t].text)]
           ELSE /\ chat_history' = InsertTurn(th[t].user_id, th[t].text)
                /\ writes' = writes + 1
                /\ cursor' = <<>>
                /\ th' = [th EXCEPT ![t].pc = "pm_update",
                             ![t].opened = MaxId(chat_history) + 1,
                             ![t].response = _generate_response(th[t].text)]
        /\ UNCHANGED <<users, calls>>

\* _save_message(user_id, response, "bot"), then return response
SaveBotResponse(t) ==
    \E fail \in BOOLEAN :
        /\ th[t].pc = "pm_update"
        /\ IF fail
           THEN /\ UNCHANGED <<chat_history, cursor, writes>>
                /\ th' = [th EXCEPT ![t].pc = "done", ![t].faulted = TRUE,
                             ![t].result = Ret("str", th[t].response)]
           ELSE /\ chat_history' = UpdateLatest(th[t].user_id, th[t].response)
                /\ writes' = writes + RowsMatched(th[t].user_id)
                /\ cursor' = <<>>
                /\ th' = [th EXCEPT ![t].pc = "done",
                             ![t].result = Ret("str", th[t].response)]
        /\ UNCHANGED <<users, calls>>

CallCreateUser(t) ==
    \E username \in Usernames, password \in Passwords :
        /\ CanCall(t)
        /\ th' = [th EXCEPT ![t] =
                    [Begin("create_user", "cu_exec") EXCEPT
                        !.text = username, !.password = password]]
        /\ calls' = calls + 1
        /\ UNCHANGED <<users, chat_history, cursor, writes>>

\* the users table without its UNIQUE constraint
UsernameTaken_NoConstraint(username) == FALSE

\* username TEXT UNIQUE NOT NULL: an INSERT of a username some row holds
\* raises IntegrityError
UsernameTaken(username) ==
    \E i \in 1..Len(users) : users[i].username = username

\* create_user: INSERT INTO users (username, password, email) VALUES (?, ?, ?)
CreateUser(t) ==
    \E fail \in BOOLEAN :
        /\ th[t].pc = "cu_exec"
        /\ IF fail
           THEN /\ UNCHANGED <<users, cursor, writes>>
                /\ th' = [th EXCEPT ![t].pc = "done", ![t].faulted = TRUE,
                             ![t].result = Ret("bool", FALSE)]
           ELSE IF UsernameTaken(th[t].text)
           THEN /\ UNCHANGED <<users, writes>>
                /\ cursor' = <<>>
                /\ th' = [th EXCEPT ![t].pc = "done",
                             ![t].result = Ret("bool", FALSE)]
           ELSE /\ users' = Append(users,
                        [id |-> MaxId(users) + 1, username |-> th[t].text,
                         password |-> th[t].password, email |-> None,
                         created_at |-> now])
                /\ writes' = writes + 1
                /\ cursor' = <<>>
                /\ th' = [th EXCEPT ![t].pc = "done",
                             ![t].opened = MaxId(users) + 1,
                             ![t].result = Ret("bool", TRUE)]
        /\ UNCHANGED <<chat_history, calls>>

CallAuthenticateUser(t) ==
    \E username \in Usernames, password \in Passwords :
        /\ CanCall(t)
        /\ th' = [th EXCEPT ![t] =
                    [Begin("authenticate_user", "au_exec") EXCEPT
                        !.text = username, !.password = password]]
        /\ calls' = calls + 1
        /\ UNCHANGED <<users, chat_history, cursor, writes>>

\* authenticate_user, lines 232-233: the interpolated query is executed
AuthExecute(t) ==
    \E fail \in BOOLEAN :
        LET query == AuthQuery(th[t].text, th[t].password) IN
        /\ th[t].pc = "au_exec"
        /\ IF fail
           THEN /\ UNCHANGED cursor
                /\ th' = [th EXCEPT ![t].pc = "done", ![t].faulted = TRUE,
                             ![t].result = Ret("none", 0)]
           ELSE IF SqlRejects(query)
           THEN /\ cursor' = <<>>
                /\ th' = [th EXCEPT ![t].pc = "done", ![t].result = Ret("none", 0)]
           ELSE /\ cursor' = AuthTuples(SelectWhere(users, query))
                /\ th' = [th EXCEPT ![t].pc = "au_fetch"]
        /\ UNCHANGED <<users, chat_history, calls, writes>>

\* authenticate_user, lines 235-238: fetchone on the shared cursor
AuthFetch(t) ==
    \E fail \in BOOLEAN :
        /\ th[t].pc = "au_fetch"
        /\ IF fail
           THEN /\ UNCHANGED cursor
                /\ th' = [th EXCEPT ![t].pc = "done", ![t].faulted = TRUE,
                             ![t].result = Ret("none", 0)]
           ELSE IF cursor = <<>>
           THEN /\ UNCHANGED cursor
                /\ th' = [th EXCEPT ![t].pc = "done", ![t].result = Ret("none", 0)]
           ELSE /\ cursor' = Tail(cursor)
                /\ th' = [th EXCEPT ![t].pc = "done",
                             ![t].result = Ret("value", Head(cursor)[1])]
        /\ UNCHANGED <<users, chat_history, calls, writes>>

CallSearchChatHistory(t) ==
    \E user_id \in UserIds, keyword \in Keywords :
        /\ CanCall(t)
        /\ th' = [th EXCEPT ![t] =
                    [Begin("search_chat_history", "sh_exec") EXCEPT
                        !.user_id = user_id, !.text = keyword]]
        /\ calls' = calls + 1
        /\ UNCHANGED <<users, chat_history, cursor, writes>>

\* search_chat_history, lines 256-257
SearchExecute(t) ==
    \E fail \in BOOLEAN :
        LET query == SearchQuery(th[t].user_id, th[t].text) IN
        /\ th[t].pc = "sh_exec"
        /\ IF fail
           THEN /\ UNCHANGED cursor
                /\ th' = [th EXCEPT ![t].pc = "done", ![t].faulted = TRUE,
                             ![t].result = Ret("list", <<>>)]
           ELSE IF SqlRejects(query)
           THEN /\ cursor' = <<>>
                /\ th' = [th EXCEPT ![t].pc = "done", ![t].result = Ret("list", <<>>)]
           ELSE /\ cursor' = HistoryTuples(SelectWhere(chat_history, query))
                /\ th' = [th EXCEPT ![t].pc = "fetchall"]
        /\ UNCHANGED <<users, chat_history, calls, writes>>

CallGetChatHistory(t) ==
    \E user_id \in UserIds, limit \in Limits :
        /\ CanCall(t)
        /\ th' = [th EXCEPT ![t] =
                    [Begin("get_chat_history", "gh_exec") EXCEPT
                        !.user_id = user_id, !.limit = limit,
                        !.seen = writes]]
        /\ calls' = calls + 1
        /\ UNCHANGED <<users, chat_history, cursor, writes>>

\* the orders in which sqlite3 may return rows under ORDER BY timestamp
\* DESC: rows with equal timestamps come in an order SQL leaves open
OrderedByTimestampDesc(rows) ==
    LET n == Len(rows)
        perms == {p \in [1..n -> 1..n] : \A i, j \in 1..n : i # j => p[i] # p[j]}
    IN {[i \in 1..n |-> rows[p[i]]] : p \in
            {p \in perms : \A i \in 1..(n - 1) :
                rows[p[i]].timestamp >= rows[p[i + 1]].timestamp}}

FirstN(rows, n) == SubSeq(rows, 1, IF n < Len(rows) THEN n ELSE Len(rows))

\* get_chat_history, lines 178-181: the query takes bound parameters
HistoryExecute(t) ==
    \E fail \in BOOLEAN :
        /\ th[t].pc = "gh_exec"
        /\ IF fail
           THEN /\ UNCHANGED cursor
                /\ th' = [th EXCEPT ![t].pc = "done", ![t].faulted = TRUE,
                             ![t].result = Ret("list", <<>>)]
           ELSE /\ \E rows \in OrderedByTimestampDesc(
                        SelectSeq(chat_history,
                                  LAMBDA row : row.user_id = th[t].user_id)) :
                        cursor' = HistoryTuples(FirstN(rows, th[t].limit))
                /\ th' = [th EXCEPT ![t].pc = "fetchall",
                             ![t].mark = MaxId(chat_history)]
        /\ UNCHANGED <<users, chat_history, calls, writes>>

\* get_chat_history, lines 183-191, and search_chat_history, lines 259-267:
\* fetchall on the shared cursor
FetchAll(t) ==
    \E fail \in BOOLEAN :
        /\ th[t].pc = "fetchall"
        /\ IF fail
           THEN /\ UNCHANGED cursor
                /\ th' = [th EXCEPT ![t].pc = "done", ![t].faulted = TRUE,
                             ![t].result = Ret("list", <<>>)]
           ELSE /\ cursor' = <<>>
                /\ th' = [th EXCEPT ![t].pc = "done",
                             ![t].result = Ret("list", cursor)]
        /\ UNCHANGED <<users, chat_history, calls, writes>>

\* get_chatbot, lines 283-293.  ChatbotCore objects are numbered in the
\* order of their construction; NoInstance is the None the global starts as.
\* The test of the global, the construction, the assignment and the read of
\* the global for the return are separate steps: the interpreter may switch
\* threads between any two of them, and __init__ opens a file and a
\* database connection
NoInstance == 0

CallGetChatbot(t) ==
    /\ CanCall(t)
    /\ th' = [th EXCEPT ![t] = Begin("get_chatbot", "gc_test")]
    /\ calls' = calls + 1
    /\ UNCHANGED <<chatbot_instance, constructed>>

\* if chatbot_instance is None:
TestInstance(t) ==
    /\ th[t].pc = "gc_test"
    /\ th' = [th EXCEPT ![t].pc =
                 IF chatbot_instance = NoInstance THEN "gc_new" ELSE "gc_return"]
    /\ UNCHANGED <<calls, chatbot_instance, constructed>>

\* ChatbotCore()
ConstructCore(t) ==
    /\ th[t].pc = "gc_new"
    /\ constructed' = constructed + 1
    /\ th' = [th EXCEPT ![t].pc = "gc_store", ![t].obj = constructed + 1]
    /\ UNCHANGED <<calls, chatbot_instance>>

\* chatbot_instance = <the new object>
StoreInstance(t) ==
    /\ th[t].pc = "gc_store"
    /\ chatbot_instance' = th[t].obj
    /\ th' = [th EXCEPT ![t].pc = "gc_return"]
    /\ UNCHANGED <<calls, constructed>>

\* return chatbot_instance
ReturnInstance(t) ==
    /\ th[t].pc = "gc_return"
    /\ th' = [th EXCEPT ![t].pc = "done",
                 ![t].result = Ret("instance", chatbot_instance)]
    /\ UNCHANGED <<calls, chatbot_instance, constructed>>

\* CURRENT_TIMESTAMP moves on
Tick ==
    /\ now < MaxNow
    /\ now' = now + 1

---------------------------------------------------------------------------
(* src/src/auth/middleware.py.  Usernames, passwords and roles are only     *)
(* ever compared for equality here, so they are whole strings.  A token is  *)
(* the three segments of a JWT: header, payload, signature; the signature   *)
(* is the HMAC of the two other segments under a key, kept as a term.       *)

USERS ==
    [u \in {"admin", "user"} |->
        IF u = "admin"
        THEN [password |-> "secure_hashed_password_123", role |-> "admin"]
        ELSE [password |-> "another_hashed_password_456", role |-> "user"]]

SECRET_KEY == "your-secret-key-here"

LoginNames == {"admin", "user", "admin' --"}
LoginPasswords == {"secure_hashed_password_123", "another_hashed_password_456",
                   "wrong_password", "any_password"}
Roles == {"admin", "user"}

HMAC(key, header, payload) == <<"HMAC-SHA256", key, header, payload>>

\* jwt.encode(payload, key, algorithm)
jwt_encode(payload, key, algorithm) ==
    LET header == [alg |-> algorithm, typ |-> "JWT"] IN
    <<header, payload, HMAC(key, header, payload)>>

NoToken == <<>>

\* jwt.decode(token, key, algorithms) at time `at`: the payload, or
\* InvalidTokenError for a token that is malformed, names another
\* algorithm, is not signed with key, or carries an exp that has passed
jwt_decode(token, key, algorithms, at) ==
    IF Len(token) # 3 THEN [ok |-> FALSE, payload |-> <<>>]
    ELSE IF token[1].alg \notin algorithms THEN [ok |-> FALSE, payload |-> <<>>]
    ELSE IF token[3] # HMAC(key, token[1], token[2])
    THEN [ok |-> FALSE, payload |-> <<>>]
    ELSE IF "exp" \in DOMAIN token[2] /\ token[2]["exp"] <= at
    THEN [ok |-> FALSE, payload |-> <<>>]
    ELSE [ok |-> TRUE, payload |-> token[2]]

\* dict.get(key), None when the key is missing
Get(dict, key) == IF key \in DOMAIN dict THEN dict[key] ELSE None

\* an optional value: Nothing is Python's None
Some(x) == <<x>>
Nothing == <<>>

\* authenticate without the password comparison
authenticate_AnyPassword(username, password) ==
    IF username \in DOMAIN USERS
    THEN Some(jwt_encode([k \in {"username", "role"} |->
                             IF k = "username" THEN username
                             ELSE USERS[username]["role"]],
                         SECRET_KEY, "HS256"))
    ELSE Nothing

\* authenticate putting a fixed role into the token
authenticate_FixedRole(username, password) ==
    IF username \in DOMAIN USERS /\ USERS[username]["password"] = password
    THEN Some(jwt_encode([k \in {"username", "role"} |->
                             IF k = "username" THEN username ELSE "admin"],
                         SECRET_KEY, "HS256"))
    ELSE Nothing

\* authenticate(username, password): a token, or None.  USERS.get(username)
\* is None, which is falsy, exactly when username is no key of USERS
authenticate(username, password) ==
    IF username \in DOMAIN USERS /\ USERS[username]["password"] = password
    THEN Some(jwt_encode([k \in {"username", "role"} |->
                             IF k = "username" THEN username
                             ELSE USERS[username]["role"]],
                         SECRET_KEY, "HS256"))
    ELSE Nothing

\* the Authorization header: absent (None), or a string that is a token,
\* possibly after the prefix "Bearer "; the empty string is no prefix and
\* the empty token
Header(present, bearer, token) ==
    [present |-> present, bearer |-> bearer, token |-> token]

NoHeader == Header(FALSE, FALSE, NoToken)

\* Python's `not token` on the header value
HeaderFalsy(h) == ~h.present \/ (~h.bearer /\ h.token = NoToken)

Response(status, error) == [status |-> status, error |-> error]

\* what a call of the gate did: its response, the payload it attached to
\* request.user (Nothing: not attached), how often it called f, and what f
\* found in request.user when it was called (Nothing: f was not called)
Gate(response, user, times, seen) ==
    [response |-> response, user |-> user, calls |-> times, seen |-> seen]

Rejected(status, error) == Gate(Response(status, error), Nothing, 0, Nothing)

\* the gate without its role check
decorated_function_NoRoleCheck(role, h, at) ==
    IF HeaderFalsy(h)
    THEN Rejected(401, "Authorization required")
    ELSE LET decoded == jwt_decode(h.token, SECRET_KEY, {"HS256"}, at) IN
         IF ~decoded.ok
         THEN Rejected(401, "Invalid token")
         ELSE Gate(Response(200, "f"), Some(decoded.payload), 1,
                   Some(decoded.payload))

\* the gate attaching the payload before it checks the role
decorated_function_AttachFirst(role, h, at) ==
    IF HeaderFalsy(h)
    THEN Rejected(401, "Authorization required")
    ELSE LET decoded == jwt_decode(h.token, SECRET_KEY, {"HS256"}, at) IN
         IF ~decoded.ok
         THEN Rejected(401, "Invalid token")
         ELSE IF role # None /\ Get(decoded.payload, "role") # role
         THEN Gate(Response(403, "Insufficient permissions"),
                   Some(decoded.payload), 0, Nothing)
         ELSE Gate(Response(200, "f"), Some(decoded.payload), 1,
                   Some(decoded.payload))

\* requires_auth(role)(f) called at time `at` on a request with header h on
\* which request.user is not set.  Line 72 attaches the payload, line 76
\* then calls f, so f finds the payload attached
decorated_function(role, h, at) ==
    IF HeaderFalsy(h)
    THEN Rejected(401, "Authorization required")
    ELSE LET token == h.token
             decoded == jwt_decode(token, SECRET_KEY, {"HS256"}, at) IN
         IF ~decoded.ok
         THEN Rejected(401, "Invalid token")
         ELSE IF role # None /\ Get(decoded.payload, "role") # role
         THEN Rejected(403, "Insufficient permissions")
         ELSE Gate(Response(200, "f"), Some(decoded.payload), 1,
                   Some(decoded.payload))

\* payloads a caller may present: those authenticate builds, one without a
\* role, and ones that carry an expiry
Payload(username, role) ==
    [k \in {"username", "role"} |-> IF k = "username" THEN username ELSE role]

PayloadExp(username, role, exp) ==
    [k \in {"username", "role", "exp"} |->
        IF k = "username" THEN username ELSE IF k = "role" THEN role ELSE exp]

Payloads ==
    {Payload(u, USERS[u].role) : u \in DOMAIN USERS}
        \cup {[k \in {"username"} |-> "admin"]}
        \cup {PayloadExp("user", "user", e) : e \in 0..(MaxNow + 1)}

Tampered(token) ==
    <<token[1], Payload(token[2]["username"], "admin"), token[3]>>

PresentedTokens ==
    {jwt_encode(p, SECRET_KEY, "HS256") : p \in Payloads}
        \cup {jwt_encode(Payload("admin", "admin"), "other-key", "HS256")}
        \cup {jwt_encode(Payload("admin", "admin"), SECRET_KEY, "none")}
        \cup {Tampered(jwt_encode(Payload("user", "user"), SECRET_KEY, "HS256"))}
        \cup {<<"not-a-jwt">>}

Headers ==
    {NoHeader, Header(TRUE, FALSE, NoToken), Header(TRUE, TRUE, NoToken)}
        \cup {Header(TRUE, b, t) : b \in BOOLEAN, t \in PresentedTokens}

\* a login request
Login ==
    \E username \in LoginNames, password \in LoginPasswords :
        LET token == authenticate(username, password) IN
        /\ outcome' = [call |-> "authenticate", username |-> username,
                       password |-> password, token |-> token]
        /\ issued' = IF token = Nothing THEN issued
                     ELSE issued \cup {[token |-> token[1], username |-> username,
                                        at |-> now]}
        /\ UNCHANGED <<request, invoked, now>>

\* a request to a route wrapped by requires_auth(role): flask hands every
\* request a new request object, on which user is not set
Protected ==
    \E role \in Roles \cup {None}, h \in Headers :
        LET d == decorated_function(role, h, now) IN
        /\ request' = [header |-> h, user |-> d.user]
        /\ outcome' = [call |-> "requires_auth", role |-> role, at |-> now,
                       response |-> d.response, seen |-> d.seen]
        /\ invoked' = d.calls
        /\ UNCHANGED <<issued, now>>

---------------------------------------------------------------------------
(* Calls of the functions that keep no state: the two functions of          *)
(* input_validator.py and the reply generator, each on the texts of a       *)
(* bounded set.  A call leaves nothing behind that a later call could       *)
(* read, so a behaviour holds one call.                                     *)

PlainTexts == Texts({"a", " ", "<", ">", "&", "'", "\""}, MaxTextLen) \cup {sScript}
EmailTexts == Texts({"a", "@", ".", " "}, MaxEmailLen)
NumberTexts == Texts({"1", "a", " "}, MaxTextLen)
SqlTexts == Texts({"a", "-", ";", "'", "\""}, MaxSqlLen) \cup {sDropTable}

Vocabulary == {sHello, kwHi, kwHelp, kwBye, kwGoodbye, sThis, sOk}

\* the messages of one to n words, joined by single spaces
RECURSIVE Phrases(_)
Phrases(n) ==
    IF n <= 1 THEN Vocabulary
    ELSE Phrases(n - 1)
            \cup {p \o <<" ">> \o w : p \in Phrases(n - 1), w \in Vocabulary}

ReplyTexts == {<<>>} \cup Phrases(MaxWords)

Applied(fn, input, input_type, result) ==
    [fn |-> fn, input |-> input, input_type |-> input_type, result |-> result]

NotApplied == applied.fn = "none"

ValidateText ==
    \E s \in PlainTexts :
        NotApplied /\ applied' = Applied("validate_input", s, "text", validate_input(s, "text"))

ValidateEmail ==
    \E s \in EmailTexts :
        NotApplied /\ applied' = Applied("validate_input", s, "email", validate_input(s, "email"))

ValidateNumber ==
    \E s \in NumberTexts :
        NotApplied /\ applied' = Applied("validate_input", s, "number", validate_input(s, "number"))

SanitizeSql ==
    \E s \in SqlTexts :
        NotApplied /\ applied' = Applied("sanitize_sql", s, None, Ret("str", sanitize_sql(s)))

GenerateResponse ==
    \E s \in ReplyTexts :
        NotApplied /\ applied' = Applied("_generate_response", s, None,
                           Ret("str", _generate_response(s)))

---------------------------------------------------------------------------

Init ==
    /\ users = <<>>
    /\ chat_history = <<>>
    /\ cursor = <<>>
    /\ th = [t \in Threads |-> Idle]
    /\ calls = 0
    /\ writes = 0
    /\ now = 0
    /\ issued = {}
    /\ request = [header |-> NoHeader, user |-> Nothing]
    /\ outcome = [call |-> "none"]
    /\ invoked = 0
    /\ applied = Applied("none", <<>>, None, NoRet)
    /\ chatbot_instance = NoInstance
    /\ constructed = 0

\* a step of ChatbotCore leaves the middleware's state alone, and a step of
\* the middleware leaves the store alone
CoreStep(A) == A /\ UNCHANGED <<now, issued, request, outcome, invoked, applied, varsBoot>>
ClockStep ==
    Tick /\ UNCHANGED <<users, chat_history, cursor, th, calls, writes, issued,
                        request, outcome, invoked, applied, varsBoot>>

\* the chat handlers: process_message, search_chat_history, get_chat_history
Next ==
    \/ \E t \in Threads : CoreStep(CallProcessMessage(t))
    \/ \E t \in Threads : CoreStep(SaveUserMessage(t))
    \/ \E t \in Threads : CoreStep(SaveBotResponse(t))
    \/ \E t \in Threads : CoreStep(CallSearchChatHistory(t))
    \/ \E t \in Threads : CoreStep(SearchExecute(t))
    \/ \E t \in Threads : CoreStep(CallGetChatHistory(t))
    \/ \E t \in Threads : CoreStep(HistoryExecute(t))
    \/ \E t \in Threads : CoreStep(FetchAll(t))
    \/ ClockStep

Spec == Init /\ [][Next]_vars

\* the account handlers: create_user, authenticate_user
NextUsers ==
    \/ \E t \in Threads : CoreStep(CallCreateUser(t))
    \/ \E t \in Threads : CoreStep(CreateUser(t))
    \/ \E t \in Threads : CoreStep(CallAuthenticateUser(t))
    \/ \E t \in Threads : CoreStep(AuthExecute(t))
    \/ \E t \in Threads : CoreStep(AuthFetch(t))

SpecUsers == Init /\ [][NextUsers]_vars

\* the middleware: logins, protected requests, and time passing
NextAuth ==
    \/ Login /\ UNCHANGED <<varsCore, applied, varsBoot>>
    \/ Protected /\ UNCHANGED <<varsCore, applied, varsBoot>>
    \/ ClockStep

SpecAuth == Init /\ [][NextAuth]_vars

\* a step of a function that keeps no state changes nothing else
PureStep(A) == A /\ UNCHANGED <<varsCore, varsAuth, varsBoot>>

\* the functions without state: validate_input, sanitize_sql,
\* _generate_response
NextText ==
    \/ PureStep(GenerateResponse)
    \/ PureStep(ValidateText)
    \/ PureStep(ValidateEmail)
    \/ PureStep(ValidateNumber)
    \/ PureStep(SanitizeSql)

SpecText == Init /\ [][NextText]_vars

\* a step of get_chatbot touches the calling thread and the global only
BootStep(A) ==
    A /\ UNCHANGED <<users, chat_history, cursor, writes, now, issued, request,
                     outcome, invoked, applied>>

\* request handlers fetching the shared ChatbotCore
NextBoot ==
    \/ \E t \in Threads : BootStep(CallGetChatbot(t))
    \/ \E t \in Threads : BootStep(TestInstance(t))
    \/ \E t \in Threads : BootStep(ConstructCore(t))
    \/ \E t \in Threads : BootStep(StoreInstance(t))
    \/ \E t \in Threads : BootStep(ReturnInstance(t))

SpecBoot == Init /\ [][NextBoot]_vars

---------------------------------------------------------------------------
(* Properties *)

Row(table, id) == CHOOSE r \in {table[i] : i \in 1..Len(table)} : r.id = id
Finished(t, op) == th[t].op = op /\ th[t].pc = "done"

\* C1: a process_message call that ran without a storage failure has, on
\* return, written its reply into the chat_history row it inserted itself,
\* whatever other calls for the same user ran meanwhile: that row is not
\* left empty and not given another call's reply.
C1_ReplyInOwnRow ==
    \A t \in Threads :
        (Finished(t, "process_message") /\ ~th[t].faulted /\ th[t].opened # 0)
            => /\ Row(chat_history, th[t].opened).response = th[t].response
               /\ Row(chat_history, th[t].opened).response # ""

\* C2: every turn search_chat_history(user_id, keyword) returns is a turn
\* of user_id, for every keyword.
C2_SearchScopedToUser ==
    \A t \in Threads :
        Finished(t, "search_chat_history")
            => \A i \in 1..Len(th[t].result.val) :
                   Row(chat_history, th[t].result.val[i][4]).user_id = th[t].user_id

\* C8: a call during which the store failed does not return what a
\* successful call returns when there is no matching data: not the empty
\* list from get_chat_history or search_chat_history, not the plain reply
\* from process_message.
C8_StorageFailureVisible ==
    \A t \in Threads :
        (th[t].pc = "done" /\ th[t].faulted)
            => /\ th[t].op \in {"get_chat_history", "search_chat_history"}
                    => th[t].result # Ret("list", <<>>)
               /\ th[t].op = "process_message"
                    => th[t].result # Ret("str", _generate_response(th[t].text))

\* C9: the message process_message stores in the turn, and the message it
\* generates the reply from, is validate_input(message), not the raw message.
C9_StoredMessageSanitized ==
    \A t \in Threads :
        (th[t].op = "process_message" /\ th[t].opened # 0)
            => /\ Row(chat_history, th[t].opened).message
                    = validate_input(th[t].text, "text").val
               /\ th[t].response
                    = _generate_response(validate_input(th[t].text, "text").val)

\* C3: authenticate_user(username, password) returns a user id only when
\* some registered user has exactly that username and exactly that
\* password; for every other pair it returns None.
C3_OnlyRegisteredPairVerifies ==
    \A t \in Threads :
        (Finished(t, "authenticate_user") /\ th[t].result.kind # "none")
            => \E i \in 1..Len(users) :
                   /\ users[i].username = th[t].text
                   /\ users[i].password = th[t].password

CreatorsOf(username) ==
    {t \in Threads : Finished(t, "create_user") /\ th[t].text = username}

TokenVerifies(token, at) ==
    /\ Len(token) = 3
    /\ token[1].alg = "HS256"
    /\ token[3] = HMAC(SECRET_KEY, token[1], token[2])
    /\ "exp" \in DOMAIN token[2] => at < token[2]["exp"]

\* C4: the gate's decision.  No Authorization header (or an empty one):
\* 401 "Authorization required"; a token that does not verify: 401 "Invalid
\* token"; a token that verifies but whose role is not the configured one:
\* 403; a token that verifies, with the configured role or with no role
\* configured: the wrapped operation runs exactly once.  In the first three
\* cases the wrapped operation does not run.  A non-empty token gets the
\* same decision with and without the prefix "Bearer ".
C4_GateDecision ==
    /\ outcome.call = "requires_auth" =>
        LET h == request.header
            role == outcome.role
            given == h.present /\ (h.bearer \/ h.token # NoToken)
            valid == TokenVerifies(h.token, outcome.at)
        IN /\ ~given =>
                /\ outcome.response = Response(401, "Authorization required")
                /\ invoked = 0
           /\ (given /\ ~valid) =>
                /\ outcome.response = Response(401, "Invalid token")
                /\ invoked = 0
           /\ (given /\ valid /\ role # None /\ Get(h.token[2], "role") # role) =>
                /\ outcome.response = Response(403, "Insufficient permissions")
                /\ invoked = 0
           /\ (given /\ valid /\ (role = None \/ Get(h.token[2], "role") = role)) =>
                /\ outcome.response.status = 200
                /\ invoked = 1
    /\ \A role \in Roles \cup {None}, token \in PresentedTokens :
           decorated_function(role, Header(TRUE, TRUE, token), now)
               = decorated_function(role, Header(TRUE, FALSE, token), now)

\* a verified token with the wrong role was refused with 403
C4_Witness ==
    /\ outcome.call = "requires_auth"
    /\ request.header.bearer
    /\ TokenVerifies(request.header.token, outcome.at)
    /\ outcome.response.status = 403
    /\ invoked = 0

\* C5: every token authenticate issues carries issued_at and an expiry
\* later than that, so that it is refused from some time on.
C5_IssuedTokensExpire ==
    \A i \in issued :
        LET claims == i.token[2] IN
        /\ "iat" \in DOMAIN claims
        /\ "exp" \in DOMAIN claims
        /\ claims["iat"] = i.at
        /\ claims["exp"] > claims["iat"]

\* C6: a token authenticate issued decodes, under the process secret, to the
\* username that logged in and the role USERS records for it, and these are
\* the claims the gate attaches to the request when it lets the token pass.
C6_TokenRoundTrip ==
    \A i \in issued :
        LET d == jwt_decode(i.token, SECRET_KEY, {"HS256"}, now) IN
        /\ d.ok
        /\ d.payload["username"] = i.username
        /\ d.payload["role"] = USERS[i.username]["role"]
        /\ (/\ outcome.call = "requires_auth"
            /\ outcome.response.status = 200
            /\ request.header.token = i.token)
                => request.user = Some(Payload(i.username, USERS[i.username]["role"]))

\* the gate let a token pass that authenticate had issued
C6_Witness ==
    /\ outcome.call = "requires_auth"
    /\ outcome.response.status = 200
    /\ \E i \in issued : request.header.token = i.token /\ i.username = "user"

\* C7: authenticate returns a token exactly when username is a key of USERS
\* and password is that user's stored password; it returns None for
\* ("admin", "wrong_password") and for the username "admin' --".
C7_AuthenticateExact ==
    outcome.call = "authenticate" =>
        /\ outcome.token # Nothing
             <=> /\ outcome.username \in DOMAIN USERS
                 /\ USERS[outcome.username]["password"] = outcome.password
        /\ (outcome.username = "admin" /\ outcome.password = "wrong_password")
             => outcome.token = Nothing
        /\ outcome.username = "admin' --" => outcome.token = Nothing

\* the login of test_authentication_bypass with the quoted username was
\* refused
C7_Witness ==
    /\ outcome.call = "authenticate"
    /\ outcome.username = "admin' --"
    /\ outcome.password = "any_password"
    /\ outcome.token = Nothing

\* the ids of the rows a result list of get_chat_history was read from
ReturnedIds(result) == {result[i][4] : i \in 1..Len(result)}

\* the ids of user_id's turns that existed when the call's SELECT ran
TurnsSeen(t) ==
    {chat_history[i].id : i \in {j \in 1..Len(chat_history) :
        /\ chat_history[j].user_id = th[t].user_id
        /\ chat_history[j].id <= th[t].mark}}

\* C11: get_chat_history(user_id, limit), when the store did not fail,
\* returns at most limit turns, all of user_id, most recent first: of two
\* returned turns the one opened later (the higher row id) comes first, also
\* when their timestamps are equal; and the returned turns are the limit
\* most recently opened turns user_id had when the query ran.
C11_RecentMostRecentFirst ==
    \A t \in Threads :
        (Finished(t, "get_chat_history") /\ ~th[t].faulted) =>
            LET result == th[t].result.val
                ids == ReturnedIds(result) IN
            /\ Len(result) <= th[t].limit
            /\ ids \subseteq TurnsSeen(t)
            /\ \A i, j \in 1..Len(result) : i < j => result[i][4] > result[j][4]
            /\ \/ Len(result) = th[t].limit
               \/ ids = TurnsSeen(t)
            /\ \A x \in TurnsSeen(t) \ ids : \A y \in ids : x < y

\* two get_chat_history calls for the same user with limit 10 have returned
\* without a storage failure, and no row was written since the earlier of
\* them began
ReadTwice(t1, t2) ==
    /\ t1 # t2
    /\ Finished(t1, "get_chat_history") /\ Finished(t2, "get_chat_history")
    /\ ~th[t1].faulted /\ ~th[t2].faulted
    /\ th[t1].user_id = th[t2].user_id
    /\ th[t1].limit = 10 /\ th[t2].limit = 10
    /\ th[t1].seen = writes /\ th[t2].seen = writes

SameResults ==
    \A t1, t2 \in Threads :
        ReadTwice(t1, t2) => th[t1].result.val = th[t2].result.val

\* a step of a get_chat_history call leaves both tables as they are
ReadOnly ==
    \A t \in Threads :
        (th'[t] # th[t] /\ th'[t].op = "get_chat_history")
            => users' = users /\ chat_history' = chat_history

\* C12: two calls of get_chat_history(user_id, 10) with no write in between
\* return the same list in the same order, and no step of the call changes
\* the stored users or turns.
C12_RepeatableRead == []SameResults /\ [][ReadOnly]_vars

\* C13: every chat_history row has the user_id of an existing users row, in
\* every reachable state: process_message creates no turn for a user that
\* does not exist.
C13_TurnsReferenceUsers ==
    \A i \in 1..Len(chat_history) :
        \E j \in 1..Len(users) : users[j].id = chat_history[i].user_id

\* the text with every ; every " and every pair -- taken out, read from the
\* left; a hyphen that is not part of a pair stays
RECURSIVE WithoutSequences(_)
WithoutSequences(s) ==
    IF s = <<>> THEN <<>>
    ELSE IF Head(s) \in {";", "\""} THEN WithoutSequences(Tail(s))
    ELSE IF Len(s) >= 2 /\ s[1] = "-" /\ s[2] = "-"
    THEN WithoutSequences(Tail(Tail(s)))
    ELSE <<Head(s)>> \o WithoutSequences(Tail(s))

\* C14: sanitize_sql returns the input with the sequences ; and -- and the
\* double quotes removed and every other character kept in order, a lone
\* hyphen and a single quote included; the result holds neither ; nor --;
\* and "test'; DROP TABLE users; --" gives "test' DROP TABLE users ".
C14_SanitizeSqlExact ==
    applied.fn = "sanitize_sql" =>
        LET out == applied.result.val IN
        /\ out = WithoutSequences(applied.input)
        /\ ~Contains(out, <<";">>)
        /\ ~Contains(out, <<"-", "-">>)
        /\ applied.input = sDropTable => out = sDropTableKept

\* the keyword is one of the words of the lower-cased message, the words
\* being what single spaces separate
OccursAsWord(kw, message) ==
    LET m == <<" ">> \o Lower(message) \o <<" ">> IN
    Contains(m, <<" ">> \o kw \o <<" ">>)

\* the keyword occurs somewhere in the lower-cased message
OccursIn(kw, message) ==
    \E i \in 1..Len(message) :
        /\ i + Len(kw) - 1 <= Len(message)
        /\ \A k \in 1..Len(kw) : LowerChar(message[i + k - 1]) = kw[k]

\* C15 as claimed: _generate_response returns the greeting when a greeting
\* keyword (hello, hi) occurs in the lower-cased message as a word, else the
\* help sentence when help does, else the farewell when bye or goodbye
\* does, else the fallback; so a message in which no keyword occurs as a
\* word gets the fallback.
C15_ReplyByKeywordWord ==
    applied.fn = "_generate_response" =>
        LET m == applied.input
            greeting == OccursAsWord(kwHello, m) \/ OccursAsWord(kwHi, m)
            help == OccursAsWord(kwHelp, m)
            farewell == OccursAsWord(kwBye, m) \/ OccursAsWord(kwGoodbye, m)
        IN applied.result.val =
               IF greeting THEN RGreeting
               ELSE IF help THEN RHelp
               ELSE IF farewell THEN RFarewell
               ELSE RFallback

\* C15 as amended: _generate_response is total and returns the greeting
\* when a greeting keyword (hello, hi) occurs anywhere in the lower-cased
\* message, inside a longer word too; else the help sentence when help
\* occurs; else the farewell when bye or goodbye occurs; else the fallback.
\* A message that matches several sets gets the sentence of the first set in
\* that order, and only a message in which no keyword occurs anywhere gets
\* the fallback.
C15_ReplyByKeywordSubstring ==
    applied.fn = "_generate_response" =>
        LET m == applied.input
            out == applied.result.val
            greeting == OccursIn(kwHello, m) \/ OccursIn(kwHi, m)
            help == OccursIn(kwHelp, m)
            farewell == OccursIn(kwBye, m) \/ OccursIn(kwGoodbye, m)
        IN /\ applied.result.kind = "str"
           /\ out \in {RGreeting, RHelp, RFarewell, RFallback}
           /\ greeting => out = RGreeting
           /\ (~greeting /\ help) => out = RHelp
           /\ (~greeting /\ ~help /\ farewell) => out = RFarewell
           /\ out = RFallback <=> ~(greeting \/ help \/ farewell)

\* "this", in which "hi" occurs but not as a word, got the greeting
C15_Witness ==
    /\ applied.fn = "_generate_response"
    /\ applied.input = sThis
    /\ applied.result.val = RGreeting

CountOf(s, c) == Cardinality({i \in 1..Len(s) : s[i] = c})

\* exactly one @, something before it, and a dot somewhere after it
WellFormedEmail(s) ==
    /\ CountOf(s, "@") = 1
    /\ \E i \in 2..Len(s) :
           s[i] = "@" /\ \E k \in (i + 1)..Len(s) : s[k] = "."

\* C16: validate_input(input, "email") on a non-empty input returns a value
\* only when the trimmed input has exactly one @, a non-empty part before it
\* and a part after it that holds a dot; on every other non-empty input,
\* one with two or more @ included, it raises ValueError.
C16_EmailSingleAt ==
    (/\ applied.fn = "validate_input"
     /\ applied.input_type = "email"
     /\ applied.input # <<>>)
        => /\ applied.result.kind \in {"str", "ValueError"}
           /\ ~WellFormedEmail(Strip(applied.input))
                => applied.result.kind = "ValueError"

\* the five character references html.escape writes
Entities ==
    {[char |-> "&", text |-> <<"&", "a", "m", "p", ";">>],
     [char |-> "<", text |-> <<"&", "l", "t", ";">>],
     [char |-> ">", text |-> <<"&", "g", "t", ";">>],
     [char |-> "\"", text |-> <<"&", "q", "u", "o", "t", ";">>],
     [char |-> "'", text |-> <<"&", "#", "x", "2", "7", ";">>]}

StartsWith(s, prefix) ==
    Len(s) >= Len(prefix) /\ SubSeq(s, 1, Len(prefix)) = prefix

\* the text a browser shows for s: every character reference replaced by
\* its character
RECURSIVE Unescape(_)
Unescape(s) ==
    IF s = <<>> THEN <<>>
    ELSE IF \E e \in Entities : StartsWith(s, e.text)
    THEN LET e == CHOOSE e \in Entities : StartsWith(s, e.text) IN
         <<e.char>> \o Unescape(SubSeq(s, Len(e.text) + 1, Len(s)))
    ELSE <<Head(s)>> \o Unescape(Tail(s))

\* C17: validate_input(input, "text") raises nothing and returns a text
\* without any literal < > or quote, in which every & begins a character
\* reference and which reads back as the trimmed input: the markup
\* characters of the input appear only escaped.  The empty input gives the
\* empty text, and "<script>alert('x')</script>" gives a text that holds
\* "&lt;script&gt;" and no "<script>".
C17_ValidatePlainEscapes ==
    (applied.fn = "validate_input" /\ applied.input_type = "text") =>
        LET out == applied.result.val IN
        /\ applied.result.kind = "str"
        /\ \A i \in 1..Len(out) : out[i] \notin {"<", ">", "'", "\""}
        /\ \A i \in 1..Len(out) :
               out[i] = "&" =>
                   \E e \in Entities : StartsWith(SubSeq(out, i, Len(out)), e.text)
        /\ Unescape(out) = Strip(applied.input)
        /\ applied.input = <<>> => out = <<>>
        /\ applied.input = sScript =>
               /\ Contains(out, <<"&", "l", "t", ";", "s", "c", "r", "i", "p", "t",
                                  "&", "g", "t", ";">>)
               /\ ~Contains(out, <<"<", "s", "c", "r", "i", "p", "t", ">">>)

\* the script element of test_xss_prevention came back escaped
C17_Witness ==
    /\ applied.fn = "validate_input"
    /\ applied.input_type = "text"
    /\ applied.input = sScript
    /\ Contains(applied.result.val, <<"&", "#", "x", "2", "7", ";">>)
    /\ Contains(applied.result.val, <<"&", "l", "t", ";">>)

Refusals == {401, 403}

\* after a call of the gate: a refusal left request.user unset and f
\* uncalled; a pass attached the claims of the presented token, called f
\* once, and f found them attached
GateAttachesOnlyOnPass ==
    outcome.call = "requires_auth" =>
        IF outcome.response.status \in Refusals
        THEN /\ request.user = Nothing
             /\ invoked = 0
             /\ outcome.seen = Nothing
        ELSE /\ TokenVerifies(request.header.token, outcome.at)
             /\ request.user = Some(request.header.token[2])
             /\ invoked = 1
             /\ outcome.seen = request.user

\* a call of the gate changes nothing but the request it serves: not the
\* tokens issued, not the clock, not the store
GateFrame ==
    (outcome' # outcome /\ outcome'.call = "requires_auth")
        => UNCHANGED <<issued, now, users, chat_history, cursor, th>>

\* C18: the gate mutates no state on a rejection: when requires_auth answers
\* 401 (no header, invalid token) or 403 (wrong role), request.user is as it
\* was, unset, and the wrapped operation has not run; the verified claims
\* are attached only when the gate lets the call pass, and before the
\* wrapped operation is invoked.
C18_GateRejectsWithoutEffect == []GateAttachesOnlyOnPass /\ [][GateFrame]_vars

\* a verified token with the wrong role was refused, and nothing attached
C18_Witness ==
    /\ outcome.call = "requires_auth"
    /\ outcome.response.status = 403
    /\ TokenVerifies(request.header.token, outcome.at)
    /\ request.user = Nothing
    /\ invoked = 0

\* C19: however the first calls of get_chatbot interleave, one ChatbotCore
\* is constructed, never a second, and every caller gets that instance.
C19_SingleInstance ==
    /\ constructed <= 1
    /\ \A t1, t2 \in Threads :
           (Finished(t1, "get_chatbot") /\ Finished(t2, "get_chatbot"))
               => th[t1].result.val = th[t2].result.val
    /\ \A t \in Threads :
           Finished(t, "get_chatbot") => th[t].result.val # NoInstance

\* the rows whose response a reply has been written into
Completed == {i \in 1..Len(chat_history) : chat_history[i].response # ""}

\* a step leaves the message and the response of every completed turn alone
CompletedKept ==
    \A i \in Completed :
        /\ i <= Len(chat_history')
        /\ chat_history'[i].message = chat_history[i].message
        /\ chat_history'[i].response = chat_history[i].response

\* a step of a process_message call leaves the rows of other users alone
OtherUsersKept ==
    \A t \in Threads :
        (th[t].op = "process_message" /\ th'[t] # th[t])
            => \A i \in 1..Len(chat_history) :
                   chat_history[i].user_id # th[t].user_id
                       => /\ i <= Len(chat_history')
                          /\ chat_history'[i] = chat_history[i]

C20_OtherUsersKept == [][OtherUsersKept]_vars

\* C20: once a reply has been written into a turn, no later step of any
\* process_message call changes that turn's response or message, and a
\* process_message call for one user never changes a row of another user.
C20_CompletedTurnNeverRewritten == [][CompletedKept /\ OtherUsersKept]_vars

=============================================================================
